---- MODULE Spec2Model ----
(***************************************************************************)
(* Model of the build orchestration scripts of ravennakit: build.py (the   *)
(* variant matrix, the distribution assembler and the publisher) and       *)
(* ci/build.py (the single-variant CI script).                             *)
(*                                                                         *)
(* A run is the sequential execution of one script.  The statements still  *)
(* to be executed are held in todo (the continuation of build()); an       *)
(* exception drops the continuation, and the interpreter then exits with   *)
(* its uncaught-exception status.  External processes (cmake configure and *)
(* build, the test binary, doxygen, the object-storage client) succeed or  *)
(* fail nondeterministically.                                              *)
(***************************************************************************)
EXTENDS Integers, Sequences, FiniteSets, TLC

(***************************************************************************)
(* Bounds of the model.                                                    *)
(***************************************************************************)
\* exit codes a failing external process may return: 1..MaxExitCode
MaxExitCode == 2
\* number of script runs in a row over one working tree (SpecDist)
MaxRuns == 2

(***************************************************************************)
(* Python values.                                                          *)
(***************************************************************************)
None == "<None>"

Falsy(x) == x = None \/ x = ""

FailCodes == 1..MaxExitCode

(***************************************************************************)
(* Module-level names of build.py and ci/build.py.                         *)
(***************************************************************************)
test_report_folder == "test-reports"

test_report_file == "ravennakit_test_report.xml"

ravennakit_tests_target == "ravennakit_tests"

Join(a, b) == a \o "/" \o b

(***************************************************************************)
(* The host: platform.system(), platform.processor(),                      *)
(* multiprocessing.cpu_count().                                            *)
(***************************************************************************)
Hosts ==
    { [system |-> "Darwin",  processor |-> "arm",    cpus |-> 8],
      [system |-> "Darwin",  processor |-> "i386",   cpus |-> 8],
      [system |-> "Windows", processor |-> "AMD64",  cpus |-> 4],
      [system |-> "Linux",   processor |-> "x86_64", cpus |-> 4] }

(***************************************************************************)
(* Version strings, as sequences of characters.  NoTag stands for a        *)
(* repository in which describe(pattern='v*') finds no tag and raises.     *)
(***************************************************************************)
NoTag == << >>

V_release == << "v", "1", ".", "2", ".", "3" >>

V_candidate == << "v", "2", ".", "1", "4", ".", "3", "-", "r", "c", "1" >>

V_short == << "v", "1", ".", "2" >>

Describes == { V_release, V_candidate, V_short, NoTag }

Branches == { "HEAD", "main" }

Digits == { "0", "1", "2", "3", "4", "5", "6", "7", "8", "9" }

RECURSIVE Str(_)
Str(s) == IF s = << >> THEN "" ELSE Head(s) \o Str(Tail(s))

RECURSIVE DigitRun(_)
DigitRun(s) == IF s # << >> /\ Head(s) \in Digits THEN 1 + DigitRun(Tail(s)) ELSE 0

Drop(s, n) == SubSeq(s, n + 1, Len(s))

Take(s, n) == SubSeq(s, 1, n)

\* re.match(r"^v([0-9]+)\.([0-9]+)\.([0-9]+)(.*)$", s): the digit runs are
\* greedy and are each followed by a non-digit, so the match is unique.
VersionMatch(s) ==
    LET okv  == s # << >> /\ Head(s) = "v"
        r1   == IF okv THEN Tail(s) ELSE << >>
        n1   == DigitRun(r1)
        r2   == Drop(r1, n1)
        dot1 == okv /\ n1 > 0 /\ r2 # << >> /\ Head(r2) = "."
        r3   == IF dot1 THEN Tail(r2) ELSE << >>
        n2   == DigitRun(r3)
        r4   == Drop(r3, n2)
        dot2 == dot1 /\ n2 > 0 /\ r4 # << >> /\ Head(r4) = "."
        r5   == IF dot2 THEN Tail(r4) ELSE << >>
        n3   == DigitRun(r5)
    IN  IF dot2 /\ n3 > 0
        THEN [ok |-> TRUE, major |-> Take(r1, n1), minor |-> Take(r3, n2),
              patch |-> Take(r5, n3), suffix |-> Drop(r5, n3)]
        ELSE [ok |-> FALSE, major |-> << >>, minor |-> << >>,
              patch |-> << >>, suffix |-> << >>]

(***************************************************************************)
(* State.                                                                  *)
(***************************************************************************)
VARIABLES
    host,          \* the machine the script runs on
    repo,          \* [describe, head]: what the VCS yields
    script,        \* "build.py" or "ci/build.py" ("" before a run starts)
    pc,            \* "start", "main", "build", "steps", "exited"
    git_version,   \* module global of build.py (a character sequence)
    git_branch,    \* module global of build.py
    args,          \* parsed command line
    build_config,  \* local of build()
    archive,       \* local of build(): a path (NoPath for None)
    path_to_build, \* local of build(): the last build_<platform> result
    cmake,         \* the CMake object of the build_<platform> call in progress
    todo,          \* statements of the run still to execute
    error,         \* the exception in flight (NoError when none)
    exit_status,   \* the interpreter's exit status once pc = "exited"
    log,           \* every external effect of the run, in order
    tree,          \* the working tree: a set of paths
    staging,       \* <path_to_build>/dist: a set of <<path, content>>
    archives,      \* zip files under <path_to_build>: a set of [path, entries]
    uploads,       \* objects put into the bucket: a sequence of [bucket, key, file]
    now,           \* the clock (datetime.now()), counted in runs
    runs           \* number of runs started

vars == << host, repo, script, pc, git_version, git_branch, args, build_config,
           archive, path_to_build, cmake, todo, error, exit_status, log, tree,
           staging, archives, uploads, now, runs >>

env == << host, repo >>

fs == << tree, staging, archives >>

\* a path held as its components; the empty one stands for None
NoPath == << >>

NoError == [type |-> "", returncode |-> 0]

NoCMake == [path_to_build |-> "", path_to_source |-> "", build_config |-> "",
            generator |-> "", architecture |-> "", parallel |-> 0,
            options |-> << >>, env |-> << >>]

NoArgs == [debug |-> FALSE, path_to_build |-> "", dist |-> FALSE,
           build_number |-> "", skip_build |-> FALSE, upload |-> FALSE,
           spaces_key |-> None, spaces_secret |-> None, android |-> FALSE,
           asan |-> FALSE, tsan |-> FALSE]

(***************************************************************************)
(* Files.  A path is a sequence of components; a file is <<path, content>>.*)
(***************************************************************************)
Content(kind, text, date) == [kind |-> kind, text |-> text, date |-> date]

SourceFile(p) == << p, Content("source", << >>, 0) >>

Paths(files) == { f[1] : f \in files }

IsUnder(p, d) == Len(p) > Len(d) /\ SubSeq(p, 1, Len(d)) = d

\* the files of a clean checkout that the model never removes
BaseFiles ==
    { << "cmake", "ravennakit.cmake" >>, << "docs", "Doxyfile" >>,
      << "docs", "assets", "footer.html.template" >>, << "examples", "demo.cpp" >>,
      << "include", "ravennakit.hpp" >>, << "src", "core.cpp" >>,
      << "test", "main.cpp" >>, << "triplets", "macos-universal.cmake" >>,
      << "submodules", "vcpkg", "bootstrap.sh" >>,
      << "submodules", "build_tools", "cmake.py" >>,
      << ".clang-format" >>, << ".gitignore" >>, << "CMakeLists.txt" >>,
      << "LICENSE.md" >>, << "vcpkg.json" >>, << "build.py" >> }

\* the files the working tree may gain or lose between runs
MutableFiles ==
    { << "src", "legacy.cpp" >>, << "README.md" >>, << "secrets.env" >> }

CheckoutTree == { SourceFile(p) : p \in BaseFiles \cup MutableFiles }

(***************************************************************************)
(* Statements of a run, and the events it leaves behind.                   *)
(***************************************************************************)
Stmt(op) ==
    [op |-> op, arch |-> "", subfolder |-> "", spdlog |-> FALSE,
     asan |-> FALSE, tsan |-> FALSE, rel |-> "", report |-> ""]

BuildCall(op, arch, subfolder, spdlog, asan, tsan) ==
    [Stmt(op) EXCEPT !.arch = arch, !.subfolder = subfolder, !.spdlog = spdlog,
                     !.asan = asan, !.tsan = tsan]

TestCall(op, rel, report) == [Stmt(op) EXCEPT !.rel = rel, !.report = report]

Event(kind, path, report, emulated, rc) ==
    [kind |-> kind, path |-> path, report |-> report, emulated |-> emulated,
     rc |-> rc]

Exception(type, rc) == [type |-> type, returncode |-> rc]

\* a handler that swallows the exception: the run goes on
Unwind_swallowed(rest) == rest

\* An exception raised while a statement runs leaves build() and main():
\* neither has a handler, so nothing of the continuation is executed.
Unwind(rest) == << >>

\* check=True left out: the exit code is ignored
CheckFails_unchecked(rc) == FALSE

\* subprocess.run(..., check=True) raises CalledProcessError on a nonzero exit
CheckFails(rc) == rc # 0

\* the interpreter's status for an uncaught exception
UncaughtExceptionStatus == 1

\* sys.exit(e.returncode) in a handler: the child's code is passed on
ExitStatus_passed_on(err) == err.returncode

ExitStatus(err) == IF err = NoError THEN 0 ELSE UncaughtExceptionStatus

\* Config.debug.value / Config.release_with_debug_info.value
ConfigValue(debug) == IF debug THEN "Debug" ELSE "RelWithDebInfo"

\* the skip_build test left out
SkipsBuild_ignored(a) == FALSE

SkipsBuild(a) == a.skip_build

\* the processor left out of the test: every macOS host runs the tests twice
NeedsEmulatedRun_any_mac(h) == h.system = "Darwin"

NeedsEmulatedRun(h) == h.system = "Darwin" /\ h.processor = "arm"

(***************************************************************************)
(* Command lines.                                                          *)
(***************************************************************************)
DarwinOnly(sys) == IF sys = "Darwin" THEN BOOLEAN ELSE { FALSE }

MainArgs(sys) ==
    [debug : BOOLEAN, path_to_build : { "build" }, dist : BOOLEAN,
     build_number : { "0" }, skip_build : BOOLEAN, upload : BOOLEAN,
     spaces_key : { None, "DO00KEY" }, spaces_secret : { "", "s3cr3t" },
     android : DarwinOnly(sys), asan : DarwinOnly(sys), tsan : DarwinOnly(sys)]

CiArgs ==
    [debug : BOOLEAN, path_to_build : { "build" }, dist : { FALSE },
     build_number : { "0" }, skip_build : BOOLEAN, upload : { FALSE },
     spaces_key : { None }, spaces_secret : { None },
     android : { FALSE }, asan : { FALSE }, tsan : { FALSE }]

(***************************************************************************)
(* build(): the statements after the set-up, by platform and options.      *)
(***************************************************************************)
AndroidStatements ==
    << BuildCall("build_android", "arm64-v8a", "android_arm64", FALSE, FALSE, FALSE),
       BuildCall("build_android", "arm64-v8a", "android_arm64_spdlog", TRUE, FALSE, FALSE),
       BuildCall("build_android", "x86_64", "android_x64", FALSE, FALSE, FALSE),
       BuildCall("build_android", "x86_64", "android_x64_spdlog", TRUE, FALSE, FALSE),
       BuildCall("build_android", "armeabi-v7a", "android_arm", FALSE, FALSE, FALSE),
       BuildCall("build_android", "armeabi-v7a", "android_arm_spdlog", TRUE, FALSE, FALSE),
       BuildCall("build_android", "x86", "android_x86", FALSE, FALSE, FALSE),
       BuildCall("build_android", "x86", "android_x86_spdlog", TRUE, FALSE, FALSE) >>

\* the thread-sanitizer variant given the address-sanitizer variant's subfolder
MacStatements_shared_dir(a) ==
    << BuildCall("build_macos", "", "macos_universal", FALSE, FALSE, FALSE),
       TestCall("run_test", ravennakit_tests_target, "macos_universal") >>
    \o (IF a.asan
        THEN << BuildCall("build_macos", "", "macos_universal_spdlog_asan", TRUE, TRUE, FALSE),
                TestCall("run_test", ravennakit_tests_target, "macos_universal_spdlog_asan") >>
        ELSE << >>)
    \o (IF a.tsan
        THEN << BuildCall("build_macos", "", "macos_universal_spdlog_asan", TRUE, FALSE, TRUE),
                TestCall("run_test", ravennakit_tests_target, "macos_universal_spdlog_tsan") >>
        ELSE << >>)

MacStatements(a) ==
    << BuildCall("build_macos", "", "macos_universal", FALSE, FALSE, FALSE),
       TestCall("run_test", ravennakit_tests_target, "macos_universal") >>
    \o (IF a.asan
        THEN << BuildCall("build_macos", "", "macos_universal_spdlog_asan", TRUE, TRUE, FALSE),
                TestCall("run_test", ravennakit_tests_target, "macos_universal_spdlog_asan") >>
        ELSE << >>)
    \o (IF a.tsan
        THEN << BuildCall("build_macos", "", "macos_universal_spdlog_tsan", TRUE, FALSE, TRUE),
                TestCall("run_test", ravennakit_tests_target, "macos_universal_spdlog_tsan") >>
        ELSE << >>)

\* both variants built first, their tests run afterwards
WindowsStatements_tests_last(cfg) ==
    << BuildCall("build_windows", "x64", "windows_x64", FALSE, FALSE, FALSE),
       BuildCall("build_windows", "x64", "windows_x64_spdlog", TRUE, FALSE, FALSE),
       TestCall("run_test", Join(cfg, ravennakit_tests_target \o ".exe"), "windows_x64"),
       TestCall("run_test", Join(cfg, ravennakit_tests_target \o ".exe"), "windows_x64_spdlog") >>

WindowsStatements(cfg) ==
    << BuildCall("build_windows", "x64", "windows_x64", FALSE, FALSE, FALSE),
       TestCall("run_test", Join(cfg, ravennakit_tests_target \o ".exe"), "windows_x64"),
       BuildCall("build_windows", "x64", "windows_x64_spdlog", TRUE, FALSE, FALSE),
       TestCall("run_test", Join(cfg, ravennakit_tests_target \o ".exe"), "windows_x64_spdlog") >>

LinuxStatements ==
    << BuildCall("build_linux", "x64", "linux_x64", FALSE, FALSE, FALSE),
       TestCall("run_test", ravennakit_tests_target, "linux_x64"),
       BuildCall("build_linux", "x64", "linux_x64_spdlog", TRUE, FALSE, FALSE),
       TestCall("run_test", ravennakit_tests_target, "linux_x64_spdlog") >>

\* "if args.dist" is read only in the Darwin branch
TakesDistBranch(sys, a) == sys = "Darwin" /\ a.dist

BuildStatements(sys, a, cfg) ==
    (IF TakesDistBranch(sys, a) THEN << Stmt("build_dist") >>
     ELSE IF sys = "Darwin" /\ a.android THEN AndroidStatements
     ELSE IF sys = "Darwin" THEN MacStatements(a)
     ELSE IF sys = "Windows" THEN WindowsStatements(cfg)
     ELSE IF sys = "Linux" THEN LinuxStatements
     ELSE << >>)
    \o << Stmt("upload") >>

(***************************************************************************)
(* The CMake objects the build_<platform> functions set up.                *)
(***************************************************************************)
vcpkg_toolchain == "submodules/vcpkg/scripts/buildsystems/vcpkg.cmake"

android_ndk_home == "~/Library/Android/sdk/ndk/23.1.7779620"

Opt(flag, name) == IF flag THEN << << name, "ON" >> >> ELSE << >>

NewCMake(path, generator, arch, cfg, h, options, environment) ==
    [path_to_build |-> path, path_to_source |-> "script_dir", build_config |-> cfg,
     generator |-> generator, architecture |-> arch, parallel |-> h.cpus,
     options |-> options, env |-> environment]

\* the address-sanitizer switch keyed on the logging flag
MacOptions_asan_with_spdlog(a, st) ==
    << << "CMAKE_TOOLCHAIN_FILE", vcpkg_toolchain >>,
       << "VCPKG_OVERLAY_TRIPLETS", "triplets" >>,
       << "VCPKG_TARGET_TRIPLET", "macos-universal" >>,
       << "CMAKE_OSX_ARCHITECTURES", "x86_64;arm64" >>,
       << "CMAKE_OSX_DEPLOYMENT_TARGET", "10.15" >>,
       << "CMAKE_XCODE_ATTRIBUTE_CODE_SIGN_IDENTITY", "Apple Development" >>,
       << "CMAKE_XCODE_ATTRIBUTE_DEVELOPMENT_TEAM", "3Y6DLW6UXM" >>,
       << "BUILD_NUMBER", a.build_number >>,
       << "RAV_ABORT_ON_ASSERT", "ON" >> >>
    \o Opt(st.spdlog, "RAV_ENABLE_SPDLOG")
    \o Opt(st.spdlog, "RAV_WITH_ADDRESS_SANITIZER")
    \o Opt(st.tsan, "RAV_WITH_THREAD_SANITIZER")

MacOptions(a, st) ==
    << << "CMAKE_TOOLCHAIN_FILE", vcpkg_toolchain >>,
       << "VCPKG_OVERLAY_TRIPLETS", "triplets" >>,
       << "VCPKG_TARGET_TRIPLET", "macos-universal" >>,
       << "CMAKE_OSX_ARCHITECTURES", "x86_64;arm64" >>,
       << "CMAKE_OSX_DEPLOYMENT_TARGET", "10.15" >>,
       << "CMAKE_XCODE_ATTRIBUTE_CODE_SIGN_IDENTITY", "Apple Development" >>,
       << "CMAKE_XCODE_ATTRIBUTE_DEVELOPMENT_TEAM", "3Y6DLW6UXM" >>,
       << "BUILD_NUMBER", a.build_number >>,
       << "RAV_ABORT_ON_ASSERT", "ON" >> >>
    \o Opt(st.spdlog, "RAV_ENABLE_SPDLOG")
    \o Opt(st.asan, "RAV_WITH_ADDRESS_SANITIZER")
    \o Opt(st.tsan, "RAV_WITH_THREAD_SANITIZER")

WindowsOptions(a, st) ==
    << << "CMAKE_TOOLCHAIN_FILE", vcpkg_toolchain >>,
       << "VCPKG_OVERLAY_TRIPLETS", "triplets" >>,
       << "VCPKG_TARGET_TRIPLET", "windows-" \o st.arch >>,
       << "BUILD_NUMBER", a.build_number >>,
       << "RAV_WINDOWS_VERSION", "0x0A00" >> >>
    \o Opt(st.spdlog, "RAV_ENABLE_SPDLOG")

LinuxOptions(a, st) ==
    << << "CMAKE_TOOLCHAIN_FILE", vcpkg_toolchain >>,
       << "VCPKG_TARGET_TRIPLET", st.arch \o "-linux" >>,
       << "BUILD_NUMBER", a.build_number >> >>
    \o Opt(st.spdlog, "RAV_ENABLE_SPDLOG")

\* android_abi_vcpkg_triplets, a dict
android_abi_vcpkg_triplets ==
    [abi \in { "arm64-v8a", "armeabi-v7a", "x86_64", "x86" } |->
        CASE abi = "arm64-v8a" -> "arm64-android"
          [] abi = "armeabi-v7a" -> "arm-android"
          [] abi = "x86_64" -> "x64-android"
          [] abi = "x86" -> "x86-android"]

\* android_abi_vcpkg_triplets[arch]: subscripting a dict with a key it does
\* not hold raises KeyError
HasTriplet(arch) == arch \in DOMAIN android_abi_vcpkg_triplets

AndroidOptions(a, st) ==
    << << "CMAKE_TOOLCHAIN_FILE", vcpkg_toolchain >>,
       << "VCPKG_CHAINLOAD_TOOLCHAIN_FILE",
          android_ndk_home \o "/build/cmake/android.toolchain.cmake" >>,
       << "VCPKG_TARGET_TRIPLET", android_abi_vcpkg_triplets[st.arch] >>,
       << "ANDROID_ABI", st.arch >>,
       << "ANDROID_PLATFORM", "android-21" >>,
       << "BUILD_NUMBER", a.build_number >> >>
    \o Opt(st.spdlog, "RAV_ENABLE_SPDLOG")

(***************************************************************************)
(* Initial states: a host, a repository, a checkout; nothing has run.      *)
(***************************************************************************)
Quiet ==
    /\ script = ""
    /\ pc = "start"
    /\ git_version = << >>
    /\ git_branch = ""
    /\ args = NoArgs
    /\ build_config = ""
    /\ archive = NoPath
    /\ path_to_build = ""
    /\ cmake = NoCMake
    /\ todo = << >>
    /\ error = NoError
    /\ exit_status = 0
    /\ log = << >>

Init ==
    /\ host \in Hosts
    /\ repo \in [describe : Describes, head : Branches]
    /\ tree = CheckoutTree
    /\ staging = { }
    /\ archives = { }
    /\ uploads = << >>
    /\ now = 1
    /\ runs = 1
    /\ Quiet

(***************************************************************************)
(* Steps shared by the actions.                                            *)
(***************************************************************************)
Head1 == todo[1]

At(op) == pc = "steps" /\ todo # << >> /\ Head1.op = op

Raise(type, rc) ==
    /\ error' = Exception(type, rc)
    /\ todo' = Unwind(Tail(todo))

Proceed ==
    /\ todo' = Tail(todo)
    /\ error' = error

Logged(e) == log' = Append(log, e)

PathToBuild(a, subfolder) == Join(a.path_to_build, subfolder)

(***************************************************************************)
(* build.py, lines 27-30: the module's globals, set when it is loaded.     *)
(***************************************************************************)
import_module ==
    /\ pc = "start"
    /\ script' = "build.py"
    /\ IF repo.describe = NoTag
       THEN /\ error' = Exception("GitError", 0)
            /\ pc' = "exited"
            /\ exit_status' = ExitStatus(error')
            /\ UNCHANGED << git_version, git_branch >>
       ELSE /\ git_version' = repo.describe
            /\ git_branch' = repo.head
            /\ pc' = "main"
            /\ UNCHANGED << error, exit_status >>
    /\ UNCHANGED << env, fs, args, build_config, archive, path_to_build, cmake,
                    todo, log, uploads, now, runs >>

\* main(): parse the command line, call build(args)
main(A) ==
    /\ pc = "main"
    /\ \E a \in A : args' = a
    /\ pc' = "build"
    /\ UNCHANGED << env, fs, script, git_version, git_branch, build_config,
                    archive, path_to_build, cmake, todo, error, exit_status,
                    log, uploads, now, runs >>

\* build(), lines 268-273, and the statements it goes on to execute
build ==
    /\ pc = "build"
    /\ script = "build.py"
    /\ build_config' = ConfigValue(args.debug)
    /\ Logged(Event("mkdir", test_report_folder, "", FALSE, 0))
    /\ archive' = NoPath
    /\ todo' = BuildStatements(host.system, args, build_config')
    /\ pc' = "steps"
    /\ UNCHANGED << env, fs, script, git_version, git_branch, args,
                    path_to_build, cmake, error, exit_status, uploads, now, runs >>

(***************************************************************************)
(* build_<platform>: return at once under skip_build, else make the build  *)
(* directory, set the CMake object up and go on to configure and build.    *)
(***************************************************************************)
BuildFrame ==
    UNCHANGED << env, fs, script, pc, git_version, git_branch, args,
                 build_config, archive, exit_status, uploads, now, runs >>

Returns(path) ==
    /\ path_to_build' = path
    /\ Proceed
    /\ UNCHANGED << cmake, log >>

SetsUp(cm) ==
    /\ cmake' = cm
    /\ Logged(Event("mkdir", cm.path_to_build, "", FALSE, 0))
    /\ todo' = << Stmt("configure"), Stmt("build") >> \o Tail(todo)
    /\ UNCHANGED << path_to_build, error >>

build_macos ==
    /\ At("build_macos")
    /\ LET path == PathToBuild(args, Head1.subfolder)
       IN  IF SkipsBuild(args)
           THEN Returns(path)
           ELSE SetsUp(NewCMake(path, "Ninja", "", build_config, host,
                                MacOptions(args, Head1), << >>))
    /\ BuildFrame

build_windows ==
    /\ At("build_windows")
    /\ LET path == PathToBuild(args, Head1.subfolder)
       IN  IF SkipsBuild(args)
           THEN Returns(path)
           ELSE SetsUp(NewCMake(path, "", Head1.arch, build_config, host,
                                WindowsOptions(args, Head1), << >>))
    /\ BuildFrame

build_linux ==
    /\ At("build_linux")
    /\ LET path == PathToBuild(args, Head1.subfolder)
       IN  IF SkipsBuild(args)
           THEN Returns(path)
           ELSE SetsUp(NewCMake(path, "Ninja", "", build_config, host,
                                LinuxOptions(args, Head1), << >>))
    /\ BuildFrame

build_android ==
    /\ At("build_android")
    /\ LET path == PathToBuild(args, Head1.subfolder)
       IN  IF SkipsBuild(args)
           THEN Returns(path)
           ELSE IF ~HasTriplet(Head1.arch)
           THEN /\ Raise("KeyError", 0)
                /\ UNCHANGED << path_to_build, cmake, log >>
           ELSE SetsUp(NewCMake(path, "", "", build_config, host,
                                AndroidOptions(args, Head1),
                                << << "ANDROID_NDK_HOME", android_ndk_home >> >>))
    /\ BuildFrame

(***************************************************************************)
(* CMake.configure() and CMake.build(): one external process each; a       *)
(* nonzero exit raises.  After build() the function returns its path.      *)
(***************************************************************************)
ProcessCodes == { 0 } \cup FailCodes

\* a nonzero exit of the external tool raises BuildFailed
CMakeFails(rc) == rc # 0

cmake_configure ==
    /\ At("configure")
    /\ \E rc \in ProcessCodes :
          /\ Logged(Event("configure", cmake.path_to_build, "", FALSE, rc))
          /\ IF CMakeFails(rc) THEN Raise("BuildFailed", rc) ELSE Proceed
    /\ UNCHANGED << path_to_build, cmake >>
    /\ BuildFrame

cmake_build ==
    /\ At("build")
    /\ \E rc \in ProcessCodes :
          /\ Logged(Event("build", cmake.path_to_build, "", FALSE, rc))
          /\ IF CMakeFails(rc)
             THEN Raise("BuildFailed", rc) /\ UNCHANGED path_to_build
             ELSE Proceed /\ path_to_build' = cmake.path_to_build
    /\ UNCHANGED cmake
    /\ BuildFrame

(***************************************************************************)
(* run_test, lines 275-285.                                                *)
(***************************************************************************)
ReportPath(report_name) == Join(test_report_folder, report_name \o ".xml")

run_test ==
    /\ At("run_test")
    /\ \E rc \in ProcessCodes :
          /\ Logged(Event("test", Join(path_to_build, Head1.rel),
                          ReportPath(Head1.report), FALSE, rc))
          /\ IF CheckFails(rc)
             THEN Raise("CalledProcessError", rc)
             ELSE /\ error' = error
                  /\ todo' = (IF NeedsEmulatedRun(host)
                              THEN << [Head1 EXCEPT !.op = "run_test_x86_64"] >>
                              ELSE << >>) \o Tail(todo)
    /\ UNCHANGED << path_to_build, cmake >>
    /\ BuildFrame

\* the second invocation, under arch --x86_64
run_test_x86_64 ==
    /\ At("run_test_x86_64")
    /\ \E rc \in ProcessCodes :
          /\ Logged(Event("test", Join(path_to_build, Head1.rel),
                          ReportPath(Head1.report), TRUE, rc))
          /\ IF CheckFails(rc) THEN Raise("CalledProcessError", rc) ELSE Proceed
    /\ UNCHANGED << path_to_build, cmake >>
    /\ BuildFrame

(***************************************************************************)
(* The end of the script: the interpreter exits.                           *)
(***************************************************************************)
exit ==
    /\ pc = "steps"
    /\ todo = << >>
    /\ pc' = "exited"
    /\ exit_status' = ExitStatus(error)
    /\ UNCHANGED << env, fs, script, git_version, git_branch, args, build_config,
                    archive, path_to_build, cmake, todo, error, log, uploads,
                    now, runs >>

(***************************************************************************)
(* build_dist, lines 206-265, and docs/generate.py.                        *)
(***************************************************************************)
RECURSIVE PathStr(_)
PathStr(p) ==
    IF p = << >> THEN ""
    ELSE IF Len(p) = 1 THEN p[1]
    ELSE p[1] \o "/" \o PathStr(Tail(p))

Name(p) == p[Len(p)]

\* writing a file replaces the file of that path
Put(files, f) == { g \in files : g[1] # f[1] } \cup { f }

PutAll(files, new) == { g \in files : g[1] \notin Paths(new) } \cup new

FileAt(files, p) == CHOOSE f \in files : f[1] = p

path_to_dist(a) == Join(a.path_to_build, "dist")

html_index == << "docs", "html", "index.html" >>

footer_html == << "docs", "assets", "footer.html" >>

footer_template == << "docs", "assets", "footer.html.template" >>

\* doxygen writes docs/html from the sources and the footer it finds
DoxygenOutput(files, date) ==
    << html_index,
       Content("generated",
               IF footer_html \in Paths(files)
               THEN FileAt(files, footer_html)[2].text ELSE << >>,
               date) >>

\* the copies of lines 217-230, in order
CopyPlan ==
    << << "copytree", << "cmake" >> >>, << "copytree", << "docs" >> >>,
       << "copytree", << "examples" >> >>, << "copytree", << "include" >> >>,
       << "copytree", << "src" >> >>, << "copytree", << "test" >> >>,
       << "copytree", << "triplets" >> >>,
       << "copytree", << "submodules", "vcpkg" >> >>,
       << "copy2", << ".clang-format" >> >>, << "copy2", << ".gitignore" >> >>,
       << "copy2", << "CMakeLists.txt" >> >>, << "copy2", << "LICENSE.md" >> >>,
       << "copy2", << "README.md" >> >>, << "copy2", << "vcpkg.json" >> >> >>

\* what one copy reads: shutil.copytree(d, dist/d, dirs_exist_ok=True) takes
\* every file under d, shutil.copy2(f, dist) the file f
Selected(c, files) ==
    IF c[1] = "copytree" THEN { f \in files : IsUnder(f[1], c[2]) }
    ELSE { f \in files : f[1] = c[2] }

\* The copies run in order; one whose source does not exist raises and the
\* copies made before it stay.  A copy writes over the files of the same
\* path in the staging directory and leaves every other file there alone.
RECURSIVE CopyAll(_, _, _)
CopyAll(plan, files, staged) ==
    IF plan = << >> THEN [staged |-> staged, ok |-> TRUE]
    ELSE LET sel == Selected(Head(plan), files)
         IN  IF sel = { } THEN [staged |-> staged, ok |-> FALSE]
             ELSE CopyAll(Tail(plan), files, PutAll(staged, sel))

VersionIsValid(v) == VersionMatch(v).ok

ArchiveName(v, build_number, kind) ==
    "ravennakit-" \o Str(v) \o "-" \o build_number \o "-" \o kind \o ".zip"

ZipPath(a, v, kind) == << a.path_to_build, ArchiveName(v, a.build_number, kind) >>

\* zip_path.unlink(missing_ok=True)
Unlink(zips, path) == { z \in zips : z.path # path }

\* shutil.make_archive(base, 'zip', root): a new zip file at base.zip (one
\* already there is written over) holding the files under root
MakeArchive(zips, path, entries) ==
    { z \in zips : z.path # path } \cup { [path |-> path, entries |-> entries] }

Under(files, root) ==
    { << Drop(f[1], Len(root)), f[2] >> : f \in { g \in files : IsUnder(g[1], root) } }

DistFrame ==
    UNCHANGED << env, script, pc, git_version, git_branch, args, build_config,
                 path_to_build, cmake, exit_status, uploads, now, runs >>

build_dist ==
    /\ At("build_dist")
    /\ Logged(Event("mkdir", path_to_dist(args), "", FALSE, 0))
    /\ todo' = << Stmt("doxygen"), Stmt("replace_in_file"), Stmt("doxygen"),
                  Stmt("copy"), Stmt("version_json"), Stmt("version_cmake"),
                  Stmt("docs_zip"), Stmt("dist_zip") >> \o Tail(todo)
    /\ UNCHANGED << fs, archive, error >>
    /\ DistFrame

\* subprocess.run(['doxygen', 'Doxyfile'], cwd=docs, check=True), at line 211
\* of build.py and again in generate.doxygen_docs()
doxygen ==
    /\ At("doxygen")
    /\ \E rc \in ProcessCodes :
          /\ Logged(Event("doxygen", "docs", "", FALSE, rc))
          /\ IF CheckFails(rc)
             THEN Raise("CalledProcessError", rc) /\ UNCHANGED tree
             ELSE Proceed /\ tree' = Put(tree, DoxygenOutput(tree, now))
    /\ UNCHANGED << staging, archives, archive >>
    /\ DistFrame

\* generate.replace_in_file: the footer with the version written into it
replace_in_file ==
    /\ At("replace_in_file")
    /\ IF footer_template \notin Paths(tree)
       THEN Raise("FileNotFoundError", 0) /\ UNCHANGED << tree, log >>
       ELSE /\ tree' = Put(tree, << footer_html,
                   Content("generated", << "RAVENNAKIT version " \o Str(git_version) >>, 0) >>)
            /\ Logged(Event("write", PathStr(footer_html), "", FALSE, 0))
            /\ Proceed
    /\ UNCHANGED << staging, archives, archive >>
    /\ DistFrame

copy_sources ==
    /\ At("copy")
    /\ LET r == CopyAll(CopyPlan, tree, staging)
       IN  /\ staging' = r.staged
           /\ Logged(Event("copy", path_to_dist(args), "", FALSE, 0))
           /\ IF r.ok THEN Proceed ELSE Raise("FileNotFoundError", 0)
    /\ UNCHANGED << tree, archives, archive >>
    /\ DistFrame

\* lines 232-239
write_version_json ==
    /\ At("version_json")
    /\ staging' = Put(staging, << << "version.json" >>,
           Content("version.json", << Str(git_version), args.build_number >>, now) >>)
    /\ Logged(Event("write", Join(path_to_dist(args), "version.json"), "", FALSE, 0))
    /\ Proceed
    /\ UNCHANGED << tree, archives, archive >>
    /\ DistFrame

\* lines 241-251
write_version_cmake ==
    /\ At("version_cmake")
    /\ IF ~VersionIsValid(git_version)
       THEN Raise("ValueError: Invalid version", 0) /\ UNCHANGED << staging, log >>
       ELSE LET m == VersionMatch(git_version)
            IN  /\ staging' = Put(staging, << << "cmake", "version.cmake" >>,
                       Content("version.cmake",
                               << Str(git_version), Str(m.major), Str(m.minor),
                                  Str(m.patch), args.build_number >>, 0) >>)
                /\ Logged(Event("write", Join(path_to_dist(args), "cmake/version.cmake"),
                                "", FALSE, 0))
                /\ Proceed
    /\ UNCHANGED << tree, archives, archive >>
    /\ DistFrame

\* lines 253-257
make_docs_archive ==
    /\ At("docs_zip")
    /\ LET zip_path == ZipPath(args, git_version, "docs")
       IN  /\ archives' = MakeArchive(Unlink(archives, zip_path), zip_path,
                                      Under(staging, << "docs", "html" >>))
           /\ Logged(Event("zip", PathStr(zip_path), "", FALSE, 0))
    /\ Proceed
    /\ UNCHANGED << tree, staging, archive >>
    /\ DistFrame

\* the zip opened for appending and no unlink: what an archive already at
\* the path holds is kept
make_dist_archive_appending ==
    /\ At("dist_zip")
    /\ LET zip_path == ZipPath(args, git_version, "dist")
           kept     == UNION { z.entries : z \in { y \in archives : y.path = zip_path } }
       IN  /\ archives' = MakeArchive(archives, zip_path, kept \cup staging)
           /\ Logged(Event("zip", PathStr(zip_path), "", FALSE, 0))
           /\ archive' = zip_path
    /\ Proceed
    /\ UNCHANGED << tree, staging >>
    /\ DistFrame

\* lines 259-265 and the assignment of line 289
make_dist_archive ==
    /\ At("dist_zip")
    /\ LET zip_path == ZipPath(args, git_version, "dist")
       IN  /\ archives' = MakeArchive(Unlink(archives, zip_path), zip_path, staging)
           /\ Logged(Event("zip", PathStr(zip_path), "", FALSE, 0))
           /\ archive' = zip_path
    /\ Proceed
    /\ UNCHANGED << tree, staging >>
    /\ DistFrame

(***************************************************************************)
(* The publisher: lines 330-331 and upload_to_spaces, lines 33-61.         *)
(***************************************************************************)
\* "if archive and args.upload"
WantsUpload(arch, a) == arch # NoPath /\ a.upload

\* the HEAD case left out: every upload goes under branches/
UploadKey_branches_only(branch, version, file) ==
    "branches/" \o branch \o "/" \o Name(file)

\* folder and key of lines 51-58
UploadKey(branch, version, file) ==
    (IF branch = "HEAD" THEN "archive/" \o Str(version) ELSE "branches/" \o branch)
    \o "/" \o Name(file)

\* the secret is not looked at
MissingCredential_key_only(a) ==
    IF Falsy(a.spaces_key) THEN "Need spaces key" ELSE ""

MissingCredential(a) ==
    IF Falsy(a.spaces_key) THEN "Need spaces key"
    ELSE IF Falsy(a.spaces_secret) THEN "Need spaces secret"
    ELSE ""

PublishFrame ==
    UNCHANGED << env, fs, script, pc, git_version, git_branch, args, build_config,
                 archive, path_to_build, cmake, exit_status, now, runs >>

publish ==
    /\ At("upload")
    /\ todo' = (IF WantsUpload(archive, args) THEN << Stmt("upload_to_spaces") >>
                ELSE << >>) \o Tail(todo)
    /\ UNCHANGED << error, log, uploads >>
    /\ PublishFrame

upload_to_spaces ==
    /\ At("upload_to_spaces")
    /\ IF MissingCredential(args) # ""
       THEN Raise(MissingCredential(args), 0) /\ UNCHANGED << log, uploads >>
       ELSE \E sent \in BOOLEAN :
               /\ Logged(Event("upload", PathStr(archive), "", FALSE,
                               IF sent THEN 0 ELSE 1))
               /\ IF sent
                  THEN /\ uploads' = Append(uploads,
                              [bucket |-> "ravennakit",
                               key |-> UploadKey(git_branch, git_version, archive),
                               file |-> PathStr(archive)])
                       /\ Proceed
                  ELSE Raise("S3UploadFailedError", 0) /\ UNCHANGED uploads
    /\ PublishFrame

(***************************************************************************)
(* ci/build.py: one variant per platform, one test run, one report file.   *)
(***************************************************************************)
CiMacOptions(a) ==
    << << "CMAKE_TOOLCHAIN_FILE", vcpkg_toolchain >>,
       << "VCPKG_OVERLAY_TRIPLETS", "triplets" >>,
       << "VCPKG_TARGET_TRIPLET", "macos-universal" >>,
       << "CMAKE_OSX_ARCHITECTURES", "x86_64;arm64" >>,
       << "CMAKE_OSX_DEPLOYMENT_TARGET", "10.13" >>,
       << "CMAKE_XCODE_ATTRIBUTE_CODE_SIGN_IDENTITY", "Apple Development" >>,
       << "CMAKE_XCODE_ATTRIBUTE_DEVELOPMENT_TEAM", "3Y6DLW6UXM" >>,
       << "BUILD_NUMBER", a.build_number >>,
       << "RAV_ENABLE_SPDLOG", "ON" >> >>

CiWindowsOptions(a, st) ==
    << << "CMAKE_TOOLCHAIN_FILE", vcpkg_toolchain >>,
       << "VCPKG_OVERLAY_TRIPLETS", "triplets" >>,
       << "VCPKG_TARGET_TRIPLET", "windows-" \o st.arch >>,
       << "BUILD_NUMBER", a.build_number >>,
       << "RAV_ENABLE_SPDLOG", "ON" >> >>

CiLinuxOptions(a, st) ==
    << << "CMAKE_TOOLCHAIN_FILE", vcpkg_toolchain >>,
       << "VCPKG_TARGET_TRIPLET", st.arch \o "-linux" >>,
       << "BUILD_NUMBER", a.build_number >>,
       << "RAV_ENABLE_SPDLOG", "ON" >> >>

\* ci/build.py build(), lines 109-135
CiStatements(sys, cfg) ==
    IF sys = "Darwin"
    THEN << BuildCall("ci_build_macos", "", "macos-universal", TRUE, FALSE, FALSE),
            TestCall("ci_test", Join(cfg, ravennakit_tests_target), "") >>
    ELSE IF sys = "Windows"
    THEN << BuildCall("ci_build_windows", "x64", "windows-x64", TRUE, FALSE, FALSE),
            TestCall("ci_test", Join(cfg, ravennakit_tests_target \o ".exe"), "") >>
    ELSE IF sys = "Linux"
    THEN << BuildCall("ci_build_linux", "x64", "linux-x64", TRUE, FALSE, FALSE),
            TestCall("ci_test", ravennakit_tests_target, "") >>
    ELSE << >>

\* ci/build.py main(): this script reads no version
ci_main ==
    /\ pc = "start"
    /\ script' = "ci/build.py"
    /\ \E a \in CiArgs : args' = a
    /\ pc' = "build"
    /\ UNCHANGED << env, fs, git_version, git_branch, build_config, archive,
                    path_to_build, cmake, todo, error, exit_status, log,
                    uploads, now, runs >>

ci_build ==
    /\ pc = "build"
    /\ script = "ci/build.py"
    /\ build_config' = ConfigValue(args.debug)
    /\ Logged(Event("mkdir", test_report_folder, "", FALSE, 0))
    /\ todo' = CiStatements(host.system, build_config')
    /\ pc' = "steps"
    /\ UNCHANGED << env, fs, script, git_version, git_branch, args, archive,
                    path_to_build, cmake, error, exit_status, uploads, now, runs >>

ci_build_macos ==
    /\ At("ci_build_macos")
    /\ LET path == PathToBuild(args, "macos-universal")
       IN  IF SkipsBuild(args)
           THEN Returns(path)
           ELSE SetsUp(NewCMake(path, "Xcode", "", build_config, host,
                                CiMacOptions(args), << >>))
    /\ BuildFrame

ci_build_windows ==
    /\ At("ci_build_windows")
    /\ LET path == PathToBuild(args, "windows-" \o Head1.arch)
       IN  IF SkipsBuild(args)
           THEN Returns(path)
           ELSE SetsUp(NewCMake(path, "", Head1.arch, build_config, host,
                                CiWindowsOptions(args, Head1), << >>))
    /\ BuildFrame

ci_build_linux ==
    /\ At("ci_build_linux")
    /\ LET path == PathToBuild(args, "linux-" \o Head1.arch)
       IN  IF SkipsBuild(args)
           THEN Returns(path)
           ELSE SetsUp(NewCMake(path, "", "", build_config, host,
                                CiLinuxOptions(args, Head1), << >>))
    /\ BuildFrame

\* the subprocess.run(..., check=True) of lines 113, 122 and 132
ci_test ==
    /\ At("ci_test")
    /\ \E rc \in ProcessCodes :
          /\ Logged(Event("test", Join(path_to_build, Head1.rel),
                          Join(test_report_folder, test_report_file), FALSE, rc))
          /\ IF CheckFails(rc) THEN Raise("CalledProcessError", rc) ELSE Proceed
    /\ UNCHANGED << path_to_build, cmake >>
    /\ BuildFrame

(***************************************************************************)
(* Spec: one run of either script, on any host, with any command line.     *)
(***************************************************************************)
Next ==
    \/ import_module
    \/ main(MainArgs(host.system))
    \/ build
    \/ build_macos
    \/ build_windows
    \/ build_linux
    \/ build_android
    \/ cmake_configure
    \/ cmake_build
    \/ run_test
    \/ run_test_x86_64
    \/ build_dist
    \/ doxygen
    \/ replace_in_file
    \/ copy_sources
    \/ write_version_json
    \/ write_version_cmake
    \/ make_docs_archive
    \/ make_dist_archive
    \/ publish
    \/ upload_to_spaces
    \/ ci_main
    \/ ci_build
    \/ ci_build_macos
    \/ ci_build_windows
    \/ ci_build_linux
    \/ ci_test
    \/ exit

Spec == Init /\ [][Next]_vars

(***************************************************************************)
(* SpecDist: distribution runs in a row on a macOS host, over one working  *)
(* tree and one build directory, the tree changing between the runs.       *)
(***************************************************************************)
DistArgs ==
    [debug : { FALSE }, path_to_build : { "build" }, dist : { TRUE },
     build_number : { "0", "1" }, skip_build : { FALSE }, upload : { FALSE },
     spaces_key : { None }, spaces_secret : { None },
     android : { FALSE }, asan : { FALSE }, tsan : { FALSE }]

BetweenRuns == pc \in { "start", "exited" }

EditFrame ==
    UNCHANGED << env, staging, archives, script, pc, git_version, git_branch,
                 args, build_config, archive, path_to_build, cmake, todo, error,
                 exit_status, log, uploads, now, runs >>

add_file ==
    /\ BetweenRuns
    /\ \E p \in MutableFiles \ Paths(tree) : tree' = tree \cup { SourceFile(p) }
    /\ EditFrame

remove_file ==
    /\ BetweenRuns
    /\ \E p \in MutableFiles \cap Paths(tree) : tree' = { f \in tree : f[1] # p }
    /\ EditFrame

\* the script is started again, later
next_run ==
    /\ pc = "exited"
    /\ runs < MaxRuns
    /\ runs' = runs + 1
    /\ now' = now + 1
    /\ script' = ""
    /\ pc' = "start"
    /\ git_version' = << >>
    /\ git_branch' = ""
    /\ args' = NoArgs
    /\ build_config' = ""
    /\ archive' = NoPath
    /\ path_to_build' = ""
    /\ cmake' = NoCMake
    /\ todo' = << >>
    /\ error' = NoError
    /\ exit_status' = 0
    /\ log' = << >>
    /\ UNCHANGED << env, fs, uploads >>

InitDist ==
    /\ host = [system |-> "Darwin", processor |-> "arm", cpus |-> 8]
    /\ repo \in [describe : { V_release, V_short }, head : { "main" }]
    /\ tree = CheckoutTree
    /\ staging = { }
    /\ archives = { }
    /\ uploads = << >>
    /\ now = 1
    /\ runs = 1
    /\ Quiet

NextDist ==
    \/ import_module
    \/ main(DistArgs)
    \/ build
    \/ build_dist
    \/ doxygen
    \/ replace_in_file
    \/ copy_sources
    \/ write_version_json
    \/ write_version_cmake
    \/ make_docs_archive
    \/ make_dist_archive
    \/ publish
    \/ exit
    \/ add_file
    \/ remove_file
    \/ next_run

SpecDist == InitDist /\ [][NextDist]_vars

(***************************************************************************)
(* SpecAndroid: build_android called on its own, with any ABI string.      *)
(***************************************************************************)
AbiInputs == { "arm64-v8a", "armeabi-v7a", "x86_64", "x86", "mips" }

AndroidArgs ==
    [debug : BOOLEAN, path_to_build : { "build" }, dist : { FALSE },
     build_number : { "0" }, skip_build : BOOLEAN, upload : { FALSE },
     spaces_key : { None }, spaces_secret : { None },
     android : { TRUE }, asan : { FALSE }, tsan : { FALSE }]

InitAndroid ==
    /\ host \in { h \in Hosts : h.system = "Darwin" }
    /\ repo = [describe |-> V_release, head |-> "main"]
    /\ tree = CheckoutTree
    /\ staging = { }
    /\ archives = { }
    /\ uploads = << >>
    /\ now = 1
    /\ runs = 1
    /\ script = "build.py"
    /\ pc = "steps"
    /\ git_version = repo.describe
    /\ git_branch = repo.head
    /\ args \in AndroidArgs
    /\ build_config = ConfigValue(args.debug)
    /\ archive = NoPath
    /\ path_to_build = ""
    /\ cmake = NoCMake
    /\ \E arch \in AbiInputs, spdlog \in BOOLEAN :
          todo = << BuildCall("build_android", arch, "android_" \o arch, spdlog,
                              FALSE, FALSE) >>
    /\ error = NoError
    /\ exit_status = 0
    /\ log = << >>

NextAndroid ==
    \/ build_android
    \/ cmake_configure
    \/ cmake_build
    \/ exit

SpecAndroid == InitAndroid /\ [][NextAndroid]_vars

(***************************************************************************)
(* Properties.                                                             *)
(***************************************************************************)
Kinds(ks) == { i \in DOMAIN log : log[i].kind \in ks }

Failed(ks) == { i \in Kinds(ks) : log[i].rc # 0 }

Last == log[Len(log)]

\* where the test binary of the variant built in dir may lie
TestTargetsOf(dir) ==
    { Join(dir, ravennakit_tests_target) }
    \cup { Join(dir, Join(ConfigValue(d), ravennakit_tests_target \o x)) :
             d \in BOOLEAN, x \in { "", ".exe" } }

\* C1: when the configure or the build step of a variant fails, nothing is
\* started after it (no configure, build or test of a later variant), no
\* test of that variant has run, nothing is left to execute, and the run
\* exits with a nonzero status.
C1_FailFastAcrossVariants ==
    \A i \in Failed({ "configure", "build" }) :
        /\ i = Len(log)
        /\ todo = << >>
        /\ error # NoError
        /\ \A j \in Kinds({ "test" }) : log[j].path \notin TestTargetsOf(log[i].path)
        /\ pc = "exited" => exit_status # 0

C1_Witness ==
    /\ pc = "exited"
    /\ exit_status # 0
    /\ args.asan /\ args.tsan
    /\ log # << >>
    /\ Last.kind = "build" /\ Last.rc # 0
    /\ Last.path = "build/macos_universal_spdlog_asan"
    /\ Kinds({ "test" }) # { }

\* C2: after a test invocation exits nonzero nothing else happens in the run:
\* no further test, no build step, no distribution step, no upload; the run
\* ends with the exception and a nonzero status.
C2_TestFailureIsFatal ==
    \A i \in Failed({ "test" }) :
        /\ i = Len(log)
        /\ todo = << >>
        /\ error.type = "CalledProcessError"
        /\ uploads = << >>
        /\ pc = "exited" => exit_status # 0

C2_Witness ==
    /\ pc = "exited"
    /\ exit_status # 0
    /\ script = "build.py"
    /\ NeedsEmulatedRun(host)
    /\ args.asan
    /\ log # << >>
    /\ Last.kind = "test" /\ Last.rc # 0 /\ ~Last.emulated
    /\ Last.report = "test-reports/macos_universal.xml"

\* C3 (as claimed): a run of build.py whose describe string does not match
\* ^v(\d+)\.(\d+)\.(\d+)(.*)$ ends with the invalid-version error before any
\* configure, build, test, documentation, copy or file-write step.
C3_VersionValidatedFirst ==
    (script = "build.py" /\ repo.describe # NoTag /\ ~VersionMatch(repo.describe).ok)
    => /\ Kinds({ "configure", "build", "test", "doxygen", "copy", "write", "zip" }) = { }
       /\ pc = "exited" => error.type = "ValueError: Invalid version"

\* C4 (as claimed): with the prepare-distribution option set, on every host,
\* no variant is configured, built or tested and the distribution assembler
\* runs; without it the assembler never runs.
C4_DistExcludesVariants ==
    (script = "build.py" /\ pc \in { "steps", "exited" })
    => IF args.dist
       THEN /\ Kinds({ "configure", "build", "test" }) = { }
            /\ (pc = "exited" /\ error = NoError)
               => \E i \in Kinds({ "mkdir" }) : log[i].path = path_to_dist(args)
       ELSE /\ Kinds({ "doxygen", "copy", "write", "zip" }) = { }
            /\ \A i \in Kinds({ "mkdir" }) : log[i].path # path_to_dist(args)

\* the allow-list of the copies, and the two files build_dist writes itself
OnAllowList(p) ==
    \E k \in DOMAIN CopyPlan :
        \/ CopyPlan[k][1] = "copytree" /\ IsUnder(p, CopyPlan[k][2])
        \/ CopyPlan[k][1] = "copy2" /\ p = CopyPlan[k][2]

GeneratedFiles == { << "version.json" >>, << "cmake", "version.cmake" >> }

\* C5 (as claimed): the full distribution archive a run has just produced
\* holds only paths that are on the allow-list in the current source tree,
\* and the two generated files, whatever runs and tree changes came before.
C5_ArchiveWithinAllowList ==
    (pc = "steps" /\ archive # NoPath)
    => \A z \in archives :
          z.path = archive
          => Paths(z.entries) \subseteq
                { p \in Paths(tree) : OnAllowList(p) } \cup GeneratedFiles

\* the statements of the run in progress
Statements ==
    IF script = "build.py" THEN BuildStatements(host.system, args, build_config)
    ELSE IF script = "ci/build.py" THEN CiStatements(host.system, build_config)
    ELSE << >>

\* the test invocations a list of statements asks for when every build
\* returns <build root>/<subfolder>
RECURSIVE PlannedTests(_, _)
PlannedTests(stmts, dir) ==
    IF stmts = << >> THEN << >>
    ELSE LET st == Head(stmts)
         IN  IF st.op = "run_test"
             THEN << << Join(dir, st.rel), ReportPath(st.report), FALSE >> >>
                  \o (IF host.system = "Darwin" /\ host.processor = "arm"
                      THEN << << Join(dir, st.rel), ReportPath(st.report), TRUE >> >>
                      ELSE << >>)
                  \o PlannedTests(Tail(stmts), dir)
             ELSE IF st.op = "ci_test"
             THEN << << Join(dir, st.rel), "test-reports/ravennakit_test_report.xml", FALSE >> >>
                  \o PlannedTests(Tail(stmts), dir)
             ELSE IF st.subfolder # ""
             THEN PlannedTests(Tail(stmts), args.path_to_build \o "/" \o st.subfolder)
             ELSE PlannedTests(Tail(stmts), dir)

RECURSIVE TestsRun(_)
TestsRun(l) ==
    IF l = << >> THEN << >>
    ELSE (IF Head(l).kind = "test"
          THEN << << Head(l).path, Head(l).report, Head(l).emulated >> >>
          ELSE << >>) \o TestsRun(Tail(l))

BuildCalls ==
    { "build_macos", "build_windows", "build_linux", "build_android",
      "ci_build_macos", "ci_build_windows", "ci_build_linux" }

C6_SkipLeavesNoTrace ==
    args.skip_build
    => /\ Kinds({ "configure", "build" }) = { }
       /\ \A i \in Kinds({ "mkdir" }) :
             log[i].path \in { test_report_folder, path_to_dist(args) }
       /\ cmake = NoCMake

C6_SameTests ==
    (pc = "exited" /\ error = NoError) => TestsRun(log) = PlannedTests(Statements, "")

C6_CallReturnsPath ==
    (At(Head1.op) /\ Head1.op \in BuildCalls /\ args.skip_build)
    => /\ path_to_build' = args.path_to_build \o "/" \o Head1.subfolder
       /\ todo' = Tail(todo)
       /\ UNCHANGED << log, cmake, error, fs >>

\* C6: under skip_build every build_<platform> call returns
\* <build root>/<subfolder> and does nothing else (no configure, no build, no
\* directory made), and a run that succeeds has executed the same test
\* invocations, in the same order, as a run without skip_build.
C6_SkipBuild ==
    /\ [](C6_SkipLeavesNoTrace /\ C6_SameTests)
    /\ [][C6_CallReturnsPath]_vars

C6_Witness ==
    /\ pc = "exited"
    /\ error = NoError
    /\ args.skip_build
    /\ script = "build.py"
    /\ host.system = "Windows"
    /\ Len(TestsRun(log)) = 2
    /\ path_to_build = "build/windows_x64_spdlog"

\* C7 (as claimed): build_android maps the four ABIs to their triplets, and a
\* call with any other ABI, under any settings, fails with the 'Unknown
\* android architecture' ValueError and performs no configure or build.
C7_AndroidAbiMapping ==
    [][At("build_android")
       => IF Head1.arch \in { "arm64-v8a", "armeabi-v7a", "x86_64", "x86" }
          THEN args.skip_build
               \/ << "VCPKG_TARGET_TRIPLET",
                     CASE Head1.arch = "arm64-v8a" -> "arm64-android"
                       [] Head1.arch = "armeabi-v7a" -> "arm-android"
                       [] Head1.arch = "x86_64" -> "x64-android"
                       [] Head1.arch = "x86" -> "x86-android" >>
                  \in { cmake'.options[k] : k \in DOMAIN cmake'.options }
          ELSE /\ error'.type = "ValueError: Unknown android architecture"
               /\ todo' = << >>
               /\ log' = log]_vars

\* C8 (as claimed): a run that completes every step exits with 0; a run
\* stopped by a failing external process exits with that process's exit code.
C8_ExitCodeOfTheProcess ==
    pc = "exited"
    => /\ error = NoError => exit_status = 0
       /\ \A i \in Failed({ "configure", "build", "test", "doxygen" }) :
             exit_status = log[i].rc

\* C8 (amended): a run that completes every step exits with 0; a run stopped
\* by a failing external process exits with the interpreter's status for an
\* uncaught exception, 1, whatever the exit code of the process was.
C8_ExitStatus ==
    pc = "exited"
    => /\ error = NoError => (exit_status = 0 /\ todo = << >>)
       /\ Failed({ "configure", "build", "test", "doxygen" }) # { }
          => (error # NoError /\ exit_status = 1)

C8_Witness ==
    /\ pc = "exited"
    /\ exit_status = 1
    /\ log # << >>
    /\ Last.kind = "test" /\ Last.rc = 2

\* C9: every object uploaded has the key archive/<version>/<file name> when
\* the branch is "HEAD" and branches/<branch>/<file name> otherwise, and a
\* call of upload_to_spaces that returns has uploaded exactly one object.
C9_PublisherKey ==
    LET file_name == "ravennakit-" \o Str(git_version) \o "-" \o args.build_number
                     \o "-dist.zip"
    IN  /\ \A i \in DOMAIN uploads :
              /\ uploads[i].bucket = "ravennakit"
              /\ git_branch = "HEAD"
                 => uploads[i].key = "archive/" \o Str(git_version) \o "/" \o file_name
              /\ git_branch # "HEAD"
                 => uploads[i].key = "branches/" \o git_branch \o "/" \o file_name
        /\ Len(uploads) = Cardinality({ i \in Kinds({ "upload" }) : log[i].rc = 0 })
        /\ Len(uploads) <= 1
        /\ (pc = "exited" /\ error = NoError /\ archive # NoPath /\ args.upload)
           => Len(uploads) = 1

C9_Witness ==
    /\ pc = "exited"
    /\ git_branch = "HEAD"
    /\ git_version = V_candidate
    /\ Len(uploads) = 1
    /\ uploads[1].key = "archive/v2.14.3-rc1/ravennakit-v2.14.3-rc1-0-dist.zip"

\* C10: in a run that asks for the upload while the storage key or the
\* storage secret is None or empty, no object is ever uploaded, and the
\* publisher, once called, fails with the missing-credentials error.
C10_MissingCredentials ==
    (args.upload /\ (args.spaces_key \in { None, "" } \/ args.spaces_secret \in { None, "" }))
    => /\ uploads = << >>
       /\ Kinds({ "upload" }) = { }
       /\ (pc = "exited" /\ archive # NoPath)
          => /\ error.type \in { "Need spaces key", "Need spaces secret" }
             /\ exit_status # 0

C10_Witness ==
    /\ pc = "exited"
    /\ args.upload
    /\ args.spaces_key = "DO00KEY"
    /\ args.spaces_secret = ""
    /\ archive # NoPath
    /\ error.type = "Need spaces secret"
    /\ uploads = << >>

\* the build directories a list of statements names, in order
RECURSIVE Subfolders(_)
Subfolders(stmts) ==
    IF stmts = << >> THEN << >>
    ELSE (IF Head(stmts).op \in BuildCalls
          THEN << args.path_to_build \o "/" \o Head(stmts).subfolder >>
          ELSE << >>) \o Subfolders(Tail(stmts))

\* the build directories the run has made so far, in order
RECURSIVE DirsMade(_)
DirsMade(l) ==
    IF l = << >> THEN << >>
    ELSE (IF Head(l).kind = "mkdir"
             /\ Head(l).path \notin { test_report_folder, path_to_dist(args) }
          THEN << Head(l).path >>
          ELSE << >>) \o DirsMade(Tail(l))

Distinct(s) == \A i, j \in DOMAIN s : i # j => s[i] # s[j]

IsPrefix(p, s) == Len(p) <= Len(s) /\ SubSeq(s, 1, Len(p)) = p

IsSuffix(p, s) == Len(p) <= Len(s) /\ SubSeq(s, Len(s) - Len(p) + 1, Len(s)) = p

\* C11: the variants a run attempts are, in order, those its inputs (script,
\* host platform, options) fix: the build directories made so far are the
\* first of that list, the calls still to come are the rest of it, a run that
\* succeeds has attempted them all, and no two variants of the list, nor two
\* directories made, are the same.
C11_VariantMatrix ==
    pc \in { "steps", "exited" }
    => LET planned == Subfolders(Statements)
           made    == DirsMade(log)
           pending == Subfolders(todo)
       IN  /\ Distinct(planned)
           /\ Distinct(made)
           /\ IsPrefix(made, planned)
           /\ IsSuffix(pending, planned)
           /\ (~args.skip_build /\ error = NoError)
              => Len(made) + Len(pending) = Len(planned)
           /\ (args.skip_build \/ TakesDistBranch(host.system, args)) => made = << >>
           /\ (pc = "exited" /\ error = NoError) => pending = << >>

C11_Witness ==
    /\ pc = "exited"
    /\ error = NoError
    /\ script = "build.py"
    /\ host.system = "Darwin"
    /\ args.asan /\ args.tsan /\ ~args.android /\ ~args.dist
    /\ DirsMade(log) = << "build/macos_universal", "build/macos_universal_spdlog_asan",
                          "build/macos_universal_spdlog_tsan" >>

\* the paths of the events of the given kinds, in order
RECURSIVE PathsOf(_, _)
PathsOf(l, ks) ==
    IF l = << >> THEN << >>
    ELSE (IF Head(l).kind \in ks THEN << Head(l).path >> ELSE << >>)
         \o PathsOf(Tail(l), ks)

\* the option is switched on in the CMake object
SwitchedOn(cm, name) == \E k \in DOMAIN cm.options : cm.options[k] = << name, "ON" >>

\* the macOS variants the policy asks for, as build directory and switches
MacPolicy(a) ==
    << [dir |-> "build/macos_universal", spdlog |-> FALSE, asan |-> FALSE, tsan |-> FALSE] >>
    \o (IF a.asan
        THEN << [dir |-> "build/macos_universal_spdlog_asan", spdlog |-> TRUE,
                 asan |-> TRUE, tsan |-> FALSE] >>
        ELSE << >>)
    \o (IF a.tsan
        THEN << [dir |-> "build/macos_universal_spdlog_tsan", spdlog |-> TRUE,
                 asan |-> FALSE, tsan |-> TRUE] >>
        ELSE << >>)

MacPolicyDirs(a) == [k \in DOMAIN MacPolicy(a) |-> MacPolicy(a)[k].dir]

MacVariantRun ==
    /\ script = "build.py"
    /\ pc \in { "steps", "exited" }
    /\ host.system = "Darwin"
    /\ ~args.dist /\ ~args.android

\* C12: on a macOS host with neither distribution nor Android asked for, the
\* variants configured are, in this order, the base universal one (no
\* logging, no sanitizer), the logging+AddressSanitizer one iff asan is set,
\* the logging+ThreadSanitizer one iff tsan is set, each with exactly its
\* switches on; a run that succeeds has attempted them all; and no CMake
\* object of any run has both sanitizer switches on.
C12_MacVariantPolicy ==
    /\ ~(SwitchedOn(cmake, "RAV_WITH_ADDRESS_SANITIZER")
         /\ SwitchedOn(cmake, "RAV_WITH_THREAD_SANITIZER"))
    /\ MacVariantRun
       => /\ IsPrefix(PathsOf(log, { "configure" }), MacPolicyDirs(args))
          /\ (pc = "exited" /\ error = NoError)
             => /\ ~args.skip_build => PathsOf(log, { "build" }) = MacPolicyDirs(args)
                /\ \A k \in DOMAIN MacPolicy(args) :
                      \E i \in Kinds({ "test" }) :
                          log[i].path = Join(MacPolicy(args)[k].dir, ravennakit_tests_target)
                /\ \A i \in Kinds({ "test" }) :
                      \E k \in DOMAIN MacPolicy(args) :
                          log[i].path = Join(MacPolicy(args)[k].dir, ravennakit_tests_target)
          /\ cmake # NoCMake
             => \E k \in DOMAIN MacPolicy(args) :
                   LET v == MacPolicy(args)[k]
                   IN  /\ cmake.path_to_build = v.dir
                       /\ SwitchedOn(cmake, "RAV_ENABLE_SPDLOG") = v.spdlog
                       /\ SwitchedOn(cmake, "RAV_WITH_ADDRESS_SANITIZER") = v.asan
                       /\ SwitchedOn(cmake, "RAV_WITH_THREAD_SANITIZER") = v.tsan

C12_Witness ==
    /\ MacVariantRun
    /\ pc = "exited"
    /\ error = NoError
    /\ args.asan /\ args.tsan /\ ~args.skip_build
    /\ PathsOf(log, { "configure" })
         = << "build/macos_universal", "build/macos_universal_spdlog_asan",
              "build/macos_universal_spdlog_tsan" >>
    /\ SwitchedOn(cmake, "RAV_WITH_THREAD_SANITIZER")
    /\ ~SwitchedOn(cmake, "RAV_WITH_ADDRESS_SANITIZER")

ArmAppleHost == host.system = "Darwin" /\ host.processor = "arm"

SameInvocation(e, f) == e.path = f.path /\ e.report = f.report

\* C13: in a run of build.py on an ARM-based Apple host every test binary is
\* invoked natively and, once that invocation has exited with zero, a second
\* time under x86_64 emulation with the same arguments, and no more; a
\* nonzero exit of the second invocation ends the run with the error; on any
\* other host a binary is invoked once, never under emulation.
C13_DualArchitectureTests ==
    script = "build.py"
    => \A i \in Kinds({ "test" }) :
          /\ Cardinality({ j \in Kinds({ "test" }) :
                              /\ log[j].path = log[i].path
                              /\ log[j].emulated = log[i].emulated }) = 1
          /\ log[i].emulated
             => /\ ArmAppleHost
                /\ i > 1
                /\ log[i - 1].kind = "test"
                /\ ~log[i - 1].emulated
                /\ log[i - 1].rc = 0
                /\ SameInvocation(log[i - 1], log[i])
                /\ log[i].rc # 0
                   => /\ i = Len(log)
                      /\ todo = << >>
                      /\ error.type = "CalledProcessError"
                      /\ pc = "exited" => exit_status # 0
          /\ (~log[i].emulated /\ ArmAppleHost /\ log[i].rc = 0)
             => IF i < Len(log)
                THEN /\ log[i + 1].kind = "test"
                     /\ log[i + 1].emulated
                     /\ SameInvocation(log[i], log[i + 1])
                ELSE /\ pc = "steps"
                     /\ todo # << >>
                     /\ Head1.op = "run_test_x86_64"
          /\ (~log[i].emulated /\ log[i].rc # 0) => i = Len(log)

C13_Witness ==
    /\ script = "build.py"
    /\ ArmAppleHost
    /\ pc = "exited"
    /\ exit_status # 0
    /\ args.asan
    /\ Cardinality(Kinds({ "test" })) = 4
    /\ Last.kind = "test" /\ Last.emulated /\ Last.rc # 0
    /\ Last.report = "test-reports/macos_universal_spdlog_asan.xml"

\* the archives of the run in progress that have been written in this run
Zipped(kind) ==
    \E i \in Kinds({ "zip" }) : log[i].path = PathStr(ZipPath(args, git_version, kind))

ArchivesAt(path) == { z \in archives : z.path = path }

\* what the production in progress puts into the archive of the given kind
Produced(kind) ==
    IF kind = "docs" THEN Under(staging, << "docs", "html" >>) ELSE staging

StampedFile(kind) == IF kind = "docs" THEN << "index.html" >> ELSE << "version.json" >>

\* C14: whatever archives earlier productions left, once a production has
\* written the docs or the dist archive there is exactly one archive at
\* <build root>/ravennakit-<version>-<build number>-<docs|dist>.zip, it holds
\* exactly what this production put into it (nothing of an archive that was
\* at the path before), its generated files are those of this production,
\* and no path ever holds two archives.
C14_ArchiveIdempotency ==
    /\ \A y, z \in archives : y.path = z.path => y = z
    /\ \A kind \in { "docs", "dist" } :
          Zipped(kind)
          => LET zp == << args.path_to_build,
                          "ravennakit-" \o Str(git_version) \o "-" \o args.build_number
                          \o "-" \o kind \o ".zip" >>
             IN  /\ ArchivesAt(zp) = { [path |-> zp, entries |-> Produced(kind)] }
                 /\ \A f \in Produced(kind) :
                       f[1] = StampedFile(kind) => f[2].date = now
                 /\ StampedFile(kind) \in Paths(Produced(kind))

\* the docs archive has been produced a second time, with the version and
\* build number of the first production (whose dist archive is still there)
C14_Witness ==
    /\ runs = 2
    /\ At("dist_zip")
    /\ Zipped("docs")
    /\ \E z \in ArchivesAt(ZipPath(args, git_version, "dist")) :
          \E f \in z.entries : f[1] = << "version.json" >> /\ f[2].date = 1
    /\ \E z \in ArchivesAt(ZipPath(args, git_version, "docs")) :
          \A f \in z.entries : f[1] = << "index.html" >> => f[2].date = 2

\* the build step of the variant configured at log[i] has run before log[j]
BuiltBetween(i, j) ==
    \E b \in Kinds({ "build" }) :
        /\ i < b /\ b < j
        /\ log[b].path = log[i].path

\* an invocation of the test binary of the variant configured at log[i] has
\* exited with zero after the variant's build step and before log[j]
PassedBetween(i, j, emulated) ==
    \E k \in Kinds({ "test" }) :
        /\ BuiltBetween(i, k) /\ k < j
        /\ log[k].path \in TestTargetsOf(log[i].path)
        /\ log[k].emulated = emulated
        /\ log[k].rc = 0

\* the Test Runner step of the variant configured at log[i] has returned with
\* success before log[j]: every invocation it makes has exited with zero
TestedBetween(i, j) ==
    /\ PassedBetween(i, j, FALSE)
    /\ (ArmAppleHost /\ script = "build.py") => PassedBetween(i, j, TRUE)

AndroidRun == script = "build.py" /\ host.system = "Darwin" /\ ~args.dist /\ args.android

\* C15 (as claimed): on every platform, Android included, a variant is built
\* and then tested, and the next variant is started only after the Test
\* Runner step of the one before has returned with success; a run that
\* succeeds has tested every variant it built.
C15_BuildThenTestEveryVariant ==
    /\ \A i, j \in Kinds({ "configure" }) :
          i < j => (BuiltBetween(i, j) /\ TestedBetween(i, j))
    /\ (pc = "exited" /\ error = NoError)
       => \A i \in Kinds({ "configure" }) : TestedBetween(i, Len(log) + 1)

\* C15 (amended): on macOS, Windows and Linux a variant is built and then
\* tested, and the next variant is started only after the Test Runner step of
\* the one before has returned with success; the Android variants are built
\* one after the other, each started only after the build step of the one
\* before, and no test is ever run for them.
C15_StrictSequence ==
    /\ \A i, j \in Kinds({ "configure" }) :
          i < j => /\ BuiltBetween(i, j)
                   /\ ~AndroidRun => TestedBetween(i, j)
    /\ (pc = "exited" /\ error = NoError)
       => \A i \in Kinds({ "configure" }) :
             /\ BuiltBetween(i, Len(log) + 1)
             /\ ~AndroidRun => TestedBetween(i, Len(log) + 1)
    /\ AndroidRun => Kinds({ "test" }) = { }

C15_Witness ==
    /\ pc = "exited"
    /\ error = NoError
    /\ script = "build.py"
    /\ ArmAppleHost
    /\ args.asan /\ ~args.tsan /\ ~args.android /\ ~args.dist
    /\ Cardinality(Kinds({ "configure" })) = 2
    /\ Cardinality(Kinds({ "test" })) = 4

\* the report files the test invocations of the run have written
ReportsWritten == { log[i].report : i \in Kinds({ "test" }) }

\* C16 (as claimed): in a run of build.py no two invocations of a test binary
\* write their JUnit report to the same path, so a run that succeeds leaves
\* one report per test invocation.
C16_ReportsNotOverwritten ==
    script = "build.py"
    => /\ \A i, j \in Kinds({ "test" }) : i # j => log[i].report # log[j].report
       /\ (pc = "exited" /\ error = NoError)
          => Cardinality(ReportsWritten) = Cardinality(Kinds({ "test" }))

====
